---- MODULE Spec2Model ----
(***************************************************************************)
(* Model of DiscordBot.py: the on_message handler, the two signal          *)
(* grammars, calculate_lot_size, place_trade and place_multiple_orders.    *)
(*                                                                         *)
(* Numbers are Python floats.  A float is modelled bit-exactly as an       *)
(* IEEE-754 binary64 value (sign, 53-bit significand, exponent) with       *)
(* round-half-even after every operation; significands are kept as         *)
(* little-endian sequences of 15-bit limbs.  Infinities, NaN and           *)
(* subnormals are outside the ranges the model draws its inputs from.      *)
(*                                                                         *)
(* The terminal (MetaTrader5), the clock and the channel are the           *)
(* environment.  A call to the terminal fails or answers, as the code      *)
(* tests for; order_send answers None, DONE or another retcode; a send to  *)
(* the channel delivers the text or raises.                                *)
(***************************************************************************)
EXTENDS Integers, Sequences, FiniteSets, TLC

\* ---- naturals of arbitrary size: little-endian sequences of 15-bit limbs ----
\* a limb holds 15 bits, so that a product of two limbs plus a carry stays below 2^31
LimbBits == 15
Base == 2^LimbBits
\* the significand of a Python float (IEEE-754 binary64) holds 53 bits
MantBits == 53

Pow2(n) == 2^n

RECURSIVE BNorm(_)
BNorm(a) == IF a = <<>> THEN a
            ELSE IF a[Len(a)] = 0 THEN BNorm(SubSeq(a, 1, Len(a) - 1)) ELSE a

RECURSIVE BFromNat(_)
BFromNat(n) == IF n = 0 THEN <<>> ELSE <<n % Base>> \o BFromNat(n \div Base)

Limb(a, i) == IF i <= Len(a) THEN a[i] ELSE 0

RECURSIVE BAddC(_, _, _, _)
BAddC(a, b, i, c) ==
    IF i > Len(a) /\ i > Len(b) THEN (IF c = 0 THEN <<>> ELSE <<c>>)
    ELSE LET x == Limb(a, i) + Limb(b, i) + c
         IN  <<x % Base>> \o BAddC(a, b, i + 1, x \div Base)
BAdd(a, b) == BAddC(a, b, 1, 0)

\* a - b for a >= b
RECURSIVE BSubC(_, _, _, _)
BSubC(a, b, i, c) ==
    IF i > Len(a) THEN <<>>
    ELSE LET x == Limb(a, i) - Limb(b, i) - c
         IN  IF x < 0 THEN <<x + Base>> \o BSubC(a, b, i + 1, 1)
                      ELSE <<x>> \o BSubC(a, b, i + 1, 0)
BSub(a, b) == BNorm(BSubC(a, b, 1, 0))

\* -1, 0, 1 as a < b, a = b, a > b (normalised operands)
RECURSIVE BCmpAt(_, _, _)
BCmpAt(a, b, i) ==
    IF i = 0 THEN 0
    ELSE IF a[i] < b[i] THEN -1
    ELSE IF a[i] > b[i] THEN 1
    ELSE BCmpAt(a, b, i - 1)
BCmp(a, b) == IF Len(a) < Len(b) THEN -1
              ELSE IF Len(a) > Len(b) THEN 1
              ELSE BCmpAt(a, b, Len(a))

\* a * d + c for a limb d
RECURSIVE BMulSmallC(_, _, _, _)
BMulSmallC(a, d, i, c) ==
    IF i > Len(a) THEN (IF c = 0 THEN <<>> ELSE <<c>>)
    ELSE LET x == a[i] * d + c
         IN  <<x % Base>> \o BMulSmallC(a, d, i + 1, x \div Base)
BMulSmall(a, d) == BNorm(BMulSmallC(a, d, 1, 0))

RECURSIVE BMulAt(_, _, _)
BMulAt(a, b, i) ==
    IF i > Len(b) THEN <<>>
    ELSE BAdd(BMulSmall(a, b[i]), BNorm(<<0>> \o BMulAt(a, b, i + 1)))
BMul(a, b) == BNorm(BMulAt(a, b, 1))

Zeros(n) == [i \in 1..n |-> 0]

\* a * 2^k
BShl(a, k) == IF a = <<>> THEN a
              ELSE Zeros(k \div LimbBits) \o BMulSmall(a, Pow2(k % LimbBits))

\* a \div d for a limb d > 0, from the top limb down: returns the quotient limbs
RECURSIVE BDivSmallAt(_, _, _, _)
BDivSmallAt(a, d, i, r) ==
    IF i = 0 THEN <<>>
    ELSE LET x == r * Base + a[i]
         IN  BDivSmallAt(a, d, i - 1, x % d) \o <<x \div d>>
BDivSmall(a, d) == BNorm(BDivSmallAt(a, d, Len(a), 0))

\* a \div 2^k
BShr(a, k) ==
    LET w == k \div LimbBits
    IN  IF w >= Len(a) THEN <<>>
        ELSE BDivSmall(SubSeq(a, w + 1, Len(a)), Pow2(k % LimbBits))

RECURSIVE BitLenSmall(_)
BitLenSmall(n) == IF n = 0 THEN 0 ELSE 1 + BitLenSmall(n \div 2)
BBitLen(a) == IF a = <<>> THEN 0
              ELSE LimbBits * (Len(a) - 1) + BitLenSmall(a[Len(a)])

BBit(a, i) == (Limb(a, (i \div LimbBits) + 1) \div Pow2(i % LimbBits)) % 2
BOdd(a) == a # <<>> /\ a[1] % 2 = 1

\* ---- IEEE-754 binary64 values: (-1)^sg * m * 2^e, m = 0 or 2^52 <= m < 2^53 ----
FZero == [sg |-> 0, m |-> <<>>, e |-> 0]

\* q * 2^e with q of 53 or 54 bits
FPack(sg, q, e) ==
    IF BBitLen(q) > MantBits THEN [sg |-> sg, m |-> BShr(q, 1), e |-> e + 1]
                             ELSE [sg |-> sg, m |-> q, e |-> e]

\* m * 2^e, m of more than 53 bits, cut to its 53 leading bits q and rounded
\* half-even on the k bits cut (and on sticky: a positive remainder below them)
FRoundCut(sg, m, e, sticky, k, q) ==
    FPack(sg,
          IF BBit(m, k - 1) = 1 /\ (sticky \/ BOdd(q) \/ BShl(BShr(m, k - 1), k - 1) # m)
          THEN BAdd(q, <<1>>) ELSE q,
          e + k)

FRoundLen(sg, m, e, sticky, L) ==
    IF L = 0 THEN FZero
    ELSE IF L <= MantBits
         THEN [sg |-> sg, m |-> BShl(m, MantBits - L), e |-> e - (MantBits - L)]
         ELSE FRoundCut(sg, m, e, sticky, L - MantBits, BShr(m, L - MantBits))

\* the double nearest to (-1)^sg * m * 2^e
FRound(sg, m, e, sticky) == FRoundLen(sg, m, e, sticky, BBitLen(m))

FromInt(n) == FRound(IF n < 0 THEN 1 ELSE 0, BFromNat(IF n < 0 THEN -n ELSE n), 0, FALSE)

FNeg(a) == IF a.m = <<>> THEN a ELSE [a EXCEPT !.sg = 1 - a.sg]
FAbs(a) == [a EXCEPT !.sg = 0]
FIsZero(a) == a.m = <<>>

\* -1, 0, 1 as |a| < |b|, |a| = |b|, |a| > |b|
FCmpAbs(a, b) ==
    IF a.m = <<>> THEN (IF b.m = <<>> THEN 0 ELSE -1)
    ELSE IF b.m = <<>> THEN 1
    ELSE IF a.e < b.e THEN -1
    ELSE IF a.e > b.e THEN 1
    ELSE BCmp(a.m, b.m)

\* -1, 0, 1 as a < b, a = b, a > b
FCmp(a, b) ==
    IF a.sg # b.sg THEN (IF a.sg = 1 THEN -1 ELSE 1)
    ELSE IF a.sg = 1 THEN -FCmpAbs(a, b) ELSE FCmpAbs(a, b)
FLt(a, b) == FCmp(a, b) < 0
FGt(a, b) == FCmp(a, b) > 0

\* A * 2^lo + B * 2^lo with the signs sa, sb; c compares A with B
FAddAligned(sa, sb, A, B, lo, c) ==
    IF sa # sb /\ c = 0 THEN FZero
    ELSE FRound(IF sa = sb \/ c > 0 THEN sa ELSE sb,
                IF sa = sb THEN BAdd(A, B) ELSE IF c > 0 THEN BSub(A, B) ELSE BSub(B, A),
                lo, FALSE)

FAddAt(a, b, lo) ==
    FAddAligned(a.sg, b.sg, BShl(a.m, a.e - lo), BShl(b.m, b.e - lo), lo, FCmpAbs(a, b))

FAdd(a, b) ==
    IF a.m = <<>> THEN b
    ELSE IF b.m = <<>> THEN a
    ELSE FAddAt(a, b, IF a.e < b.e THEN a.e ELSE b.e)

FSub(a, b) == FAdd(a, FNeg(b))

FMul(a, b) ==
    IF a.m = <<>> \/ b.m = <<>> THEN FZero
    ELSE FRound((a.sg + b.sg) % 2, BMul(a.m, b.m), a.e + b.e, FALSE)

\* one step of restoring division, r2 = 2 * st.r < 2 * d: the next quotient bit
DivStepBit(st, d, r2, ge) ==
    [q |-> BAdd(BShl(st.q, 1), IF ge THEN <<1>> ELSE <<>>),
     r |-> IF ge THEN BSub(r2, d) ELSE r2,
     n |-> st.n + 1]
DivStepCmp(st, d, r2) == DivStepBit(st, d, r2, BCmp(r2, d) >= 0)
DivStep(st, d) == DivStepCmp(st, d, BShl(st.r, 1))

DivStep8(st, d) ==
    DivStep(DivStep(DivStep(DivStep(DivStep(DivStep(DivStep(DivStep(st, d), d), d), d), d), d), d), d)

\* quotient bits produced below the leading one before rounding: 56 = 7 * 8 >= 53 + 2
QuotBits == 7 * 8

RECURSIVE DivBits(_, _)
DivBits(st, d) == IF st.n >= QuotBits THEN st ELSE DivBits(DivStep8(st, d), d)

FDivFrom(a, b, ge) ==
    DivBits([q |-> IF ge THEN <<1>> ELSE <<>>,
             r |-> IF ge THEN BSub(a.m, b.m) ELSE a.m,
             n |-> 0], b.m)

FDivRound(sg, e, qr) == FRound(sg, qr.q, e, qr.r # <<>>)

\* b nonzero
FDiv(a, b) ==
    IF a.m = <<>> THEN FZero
    ELSE FDivRound((a.sg + b.sg) % 2, a.e - b.e - QuotBits,
                   FDivFrom(a, b, BCmp(a.m, b.m) >= 0))

\* int(x): truncation toward zero, as a float
FTrunc(a) ==
    IF a.e >= 0 THEN a
    ELSE FRound(a.sg, BShr(a.m, -a.e), 0, FALSE)

\* ---------------------------------------------------------------------------
\* Lines of a message.  A line is the sequence of its whitespace-separated
\* tokens; a token is a word (letters, digits, underscore: \w+), a numeral
\* (\d*\.?\d+, kept as its digits d and the count f of digits after the point),
\* a numeral followed by '%', or other non-space text.
\* ---------------------------------------------------------------------------
Wd(s)     == [k |-> "w", s |-> s, d |-> 0, f |-> 0]
Num(d, f) == [k |-> "n", s |-> "", d |-> d, f |-> f]
Pct(d, f) == [k |-> "p", s |-> "", d |-> d, f |-> f]
Oth(s)    == [k |-> "o", s |-> s, d |-> 0, f |-> 0]

\* float(text) of a numeral: the double nearest to d / 10^f
float(t) == IF t.f = 0 THEN FromInt(t.d) ELSE FDiv(FromInt(t.d), FromInt(10^t.f))

\* int(text) of a numeral of digits only
int(t) == t.d

\* str.upper(), on the words the lines of the model are made of; the words not
\* listed have no lower-case letter
upper(s) ==
    CASE s \in {"buy", "Buy"}   -> "BUY"
      [] s \in {"sell", "Sell"} -> "SELL"
      [] s = "limit"            -> "LIMIT"
      [] s = "stop"             -> "STOP"
      [] s = "Market"           -> "MARKET"
      [] s = "day"              -> "DAY"
      [] s = "Week"             -> "WEEK"
      [] s = "hello"            -> "HELLO"
      [] s = "swing"            -> "SWING"
      [] s = "grid"             -> "GRID"
      [] OTHER                  -> s

\* the regular expressions' groups, token by token
IsOrderType(t)  == t.k = "w" /\ t.s \in {"BUY", "SELL"}
IsKindSingle(t) == t.k = "w" /\ t.s \in {"LIMIT", "STOP", "MARKET"}
IsKindMulti(t)  == t.k = "w" /\ t.s \in {"LIMIT", "STOP"}
IsSymbol(t)     == t.k = "w" \/ (t.k = "n" /\ t.f = 0)
IsRiskOrLot(t)  == t.k \in {"n", "p"}
IsNumber(t)     == t.k = "n"
IsDigits(t)     == t.k = "n" /\ t.f = 0
IsExpiration(t) == t.k = "w" /\ t.s \in {"DAY", "WEEK"}

\* the optional groups after tp: (?:\s+(DAY|WEEK))?(?:\s+([^\s]+))?
\* on the tokens from position p on; an unmatched group is None (<<>>).  The
\* words of the model's lines are DAY or WEEK or do not begin with either, and
\* their numerals have no text after the digits, so that a group matches a
\* whole token or none of it
Trailer(line, p) ==
    LET hasExp == Len(line) >= p /\ IsExpiration(line[p])
        q      == IF hasExp THEN p + 1 ELSE p
    IN  [expiration |-> IF hasExp THEN <<line[p].s>> ELSE <<>>,
         comment    |-> IF Len(line) >= q THEN <<line[q]>> ELSE <<>>]

\* parse_trade_signal: the groupdict of the match, or None (<<>>)
parse_trade_signal(line) ==
    IF /\ Len(line) >= 7
       /\ IsOrderType(line[1]) /\ IsKindSingle(line[2]) /\ IsSymbol(line[3])
       /\ IsRiskOrLot(line[4]) /\ IsNumber(line[5]) /\ IsNumber(line[6])
       /\ IsNumber(line[7])
    THEN << [order_type  |-> line[1].s,  order_kind |-> line[2].s,
             symbol      |-> line[3],    risk_or_lot |-> line[4],
             entry_price |-> line[5],    sl |-> line[6],  tp |-> line[7],
             expiration  |-> Trailer(line, 8).expiration,
             comment     |-> Trailer(line, 8).comment] >>
    ELSE <<>>

\* parse_multiple_orders_signal: the groupdict of the match, or None (<<>>)
parse_multiple_orders_signal(line) ==
    IF /\ Len(line) >= 9
       /\ IsOrderType(line[1]) /\ IsKindMulti(line[2]) /\ IsSymbol(line[3])
       /\ IsRiskOrLot(line[4]) /\ IsNumber(line[5]) /\ IsNumber(line[6])
       /\ IsDigits(line[7]) /\ IsNumber(line[8]) /\ IsNumber(line[9])
    THEN << [order_type  |-> line[1].s,  order_kind |-> line[2].s,
             symbol      |-> line[3],    risk_or_lot |-> line[4],
             entry_price_range |-> line[5],  end_price_range |-> line[6],
             num_orders  |-> line[7],
             sl |-> line[8],  tp |-> line[9],
             expiration  |-> Trailer(line, 10).expiration,
             comment     |-> Trailer(line, 10).comment] >>
    ELSE <<>>

\* ---------------------------------------------------------------------------
\* calculate_lot_size.  symbol_info is the terminal's answer to the
\* mt5.symbol_info call made inside (None is <<>>); risk_percentage is None
\* (<<>>) when the caller has no percentage.  The result is the value returned
\* (t = "ok"), None (t = "none"), or an exception leaving the function
\* (t = "raise": TypeError on a None percentage, ZeroDivisionError on a zero
\* tick size or volume step).
\* ---------------------------------------------------------------------------
Returned(v) == [t |-> "ok",    v |-> v]
ReturnedNone == [t |-> "none",  v |-> FZero]
Raised      == [t |-> "raise", v |-> FZero]

\* Python's a / b on floats: ZeroDivisionError when b is zero
truediv(a, b) == IF FIsZero(b) THEN Raised ELSE Returned(FDiv(a, b))

\* lines 84-92: clamp to [volume_min, volume_max], else round down to the step
round_to_step(lot_size, symbol_info) ==
    IF FLt(lot_size, symbol_info.volume_min) THEN Returned(symbol_info.volume_min)
    ELSE IF FGt(lot_size, symbol_info.volume_max) THEN Returned(symbol_info.volume_max)
    ELSE IF FIsZero(symbol_info.volume_step) THEN Raised
    ELSE Returned(FMul(FTrunc(FDiv(lot_size, symbol_info.volume_step)),
                       symbol_info.volume_step))

\* a sizer that falls back on the smallest volume whatever the potential loss
lot_at_least_minimum(risk_amount, potential_loss_per_lot, symbol_info) ==
    Returned(symbol_info.volume_min)

\* lines 75-92: None on a zero potential loss, else the lot size clamped or rounded
lot_for_loss(risk_amount, potential_loss_per_lot, symbol_info) ==
    IF FIsZero(potential_loss_per_lot) THEN ReturnedNone
    ELSE round_to_step(FDiv(risk_amount, potential_loss_per_lot), symbol_info)

\* line 43
risk_amount(balance, risk_percentage) == FMul(balance, FDiv(risk_percentage, FromInt(100)))

\* lines 67-71, the tick size not zero
potential_loss_per_lot(entry_price, sl, symbol_info) ==
    FMul(FDiv(FAbs(FSub(entry_price, sl)), symbol_info.point), symbol_info.trade_tick_value)

calculate_lot_size(balance, risk_percentage, symbol_info, entry_price, sl) ==
    IF risk_percentage = <<>> THEN Raised
    ELSE IF symbol_info = <<>> THEN ReturnedNone
    ELSE IF FIsZero(symbol_info[1].point) THEN Raised
    ELSE lot_for_loss(risk_amount(balance, risk_percentage[1]),
                      potential_loss_per_lot(entry_price, sl, symbol_info[1]),
                      symbol_info[1])

\* ---------------------------------------------------------------------------
\* The order request.  Both functions build it from their own copy of the same
\* statements; each copy is modelled on its own.  A key the code does not set
\* is an empty sequence.  now is the datetime.now() read for the expiration: the
\* count of days since a Monday and the second of the day.
\* ---------------------------------------------------------------------------
SecondsPerDay == 24 * 60 * 60
EndOfDay      == (23 * 60 + 59) * 60 + 59
\* line 252 (and 366): Monday is 0
Friday        == 4
weekday(now)  == now.day % 7
timestamp(now) == now.day * SecondsPerDay + now.tod

deviation == 20
magic     == 234000

\* a mapping that looks at the kind only and takes every order for a BUY
order_type_of_buy(order_type, order_kind) ==
    CASE upper(order_kind) = "LIMIT"  -> <<"ORDER_TYPE_BUY_LIMIT">>
      [] upper(order_kind) = "STOP"   -> <<"ORDER_TYPE_BUY_STOP">>
      [] upper(order_kind) = "MARKET" -> <<"ORDER_TYPE_BUY">>
      [] OTHER -> <<>>

\* lines 335-343
place_trade_order_type(order_type, order_kind) ==
    CASE upper(order_kind) = "LIMIT"  -> <<IF upper(order_type) = "BUY" THEN "ORDER_TYPE_BUY_LIMIT"
                                                          ELSE "ORDER_TYPE_SELL_LIMIT">>
      [] upper(order_kind) = "STOP"   -> <<IF upper(order_type) = "BUY" THEN "ORDER_TYPE_BUY_STOP"
                                                          ELSE "ORDER_TYPE_SELL_STOP">>
      [] upper(order_kind) = "MARKET" -> <<IF upper(order_type) = "BUY" THEN "ORDER_TYPE_BUY"
                                                          ELSE "ORDER_TYPE_SELL">>
      [] OTHER -> <<>>

\* lines 362-367: replace(hour=23, minute=59, second=59) of now, or of now plus
\* the days until Friday, as a timestamp
place_trade_expiration_time(now, expiration) ==
    IF expiration = "DAY"
    THEN timestamp([day |-> now.day, tod |-> EndOfDay])
    ELSE LET days_until_friday == (Friday - weekday(now)) % 7
         IN  timestamp([day |-> now.day + days_until_friday, tod |-> EndOfDay])

\* lines 346-376; expiration and comment are the groups of the match (<<>>: None)
place_trade_request(order_type, order_kind, symbol, volume, entry_price, sl, tp, expiration, comment, now) ==
    [action       |-> IF order_kind # "MARKET" THEN "TRADE_ACTION_PENDING"
                                               ELSE "TRADE_ACTION_DEAL",
     symbol       |-> symbol,
     volume       |-> volume,
     type         |-> place_trade_order_type(order_type, order_kind)[1],
     price        |-> entry_price,
     sl           |-> sl,
     tp           |-> tp,
     deviation    |-> deviation,
     magic        |-> magic,
     type_filling |-> "ORDER_FILLING_IOC",
     type_time    |-> IF expiration = <<>> THEN "ORDER_TIME_GTC" ELSE "ORDER_TIME_SPECIFIED",
     expiration   |-> IF expiration = <<>> THEN <<>>
                      ELSE <<place_trade_expiration_time(now[1], expiration[1])>>,
     comment      |-> comment]

\* lines 221-229
place_multiple_orders_order_type(order_type, order_kind) ==
    CASE upper(order_kind) = "LIMIT"  -> <<IF upper(order_type) = "BUY" THEN "ORDER_TYPE_BUY_LIMIT"
                                                          ELSE "ORDER_TYPE_SELL_LIMIT">>
      [] upper(order_kind) = "STOP"   -> <<IF upper(order_type) = "BUY" THEN "ORDER_TYPE_BUY_STOP"
                                                          ELSE "ORDER_TYPE_SELL_STOP">>
      [] upper(order_kind) = "MARKET" -> <<IF upper(order_type) = "BUY" THEN "ORDER_TYPE_BUY"
                                                          ELSE "ORDER_TYPE_SELL">>
      [] OTHER -> <<>>

\* an expiration a day, or a week, after the clock read
expiration_time_from_now(now, expiration) ==
    timestamp(now) + (IF expiration = "DAY" THEN 1 ELSE 7) * SecondsPerDay

\* lines 248-253
place_multiple_orders_expiration_time(now, expiration) ==
    IF expiration = "DAY"
    THEN timestamp([day |-> now.day, tod |-> EndOfDay])
    ELSE LET days_until_friday == (Friday - weekday(now)) % 7
         IN  timestamp([day |-> now.day + days_until_friday, tod |-> EndOfDay])

\* lines 232-262
place_multiple_orders_request(order_type, order_kind, symbol, volume, new_entry_price, sl, tp, expiration, comment, now) ==
    [action       |-> IF order_kind # "MARKET" THEN "TRADE_ACTION_PENDING"
                                               ELSE "TRADE_ACTION_DEAL",
     symbol       |-> symbol,
     volume       |-> volume,
     type         |-> place_multiple_orders_order_type(order_type, order_kind)[1],
     price        |-> new_entry_price,
     sl           |-> sl,
     tp           |-> tp,
     deviation    |-> deviation,
     magic        |-> magic,
     type_filling |-> "ORDER_FILLING_IOC",
     type_time    |-> IF expiration = <<>> THEN "ORDER_TIME_GTC" ELSE "ORDER_TIME_SPECIFIED",
     expiration   |-> IF expiration = <<>> THEN <<>>
                      ELSE <<place_multiple_orders_expiration_time(now[1], expiration[1])>>,
     comment      |-> comment]

\* ---------------------------------------------------------------------------
\* Inputs: the messages received, and what the terminal, the clock and the
\* channel answer.
\* ---------------------------------------------------------------------------
\* the largest COUNT a range line carries
MaxCount == 5
\* the most lines a message of several lines carries
MaxLines == 2

OptionalTokens(expiration, comment) ==
    (IF expiration = "" THEN <<>> ELSE <<Wd(expiration)>>) \o
    (IF comment = "" THEN <<>> ELSE <<Wd(comment)>>)

SingleLine(side, kind, risk_or_lot, entry, sl, tp, expiration, comment) ==
    <<Wd(side), Wd(kind), Wd("EURUSD"), risk_or_lot, entry, sl, tp>>
        \o OptionalTokens(expiration, comment)

RangeLine(side, kind, risk_or_lot, start, end, count, sl, tp, expiration, comment) ==
    <<Wd(side), Wd(kind), Wd("EURUSD"), risk_or_lot, start, end, Num(count, 0), sl, tp>>
        \o OptionalTokens(expiration, comment)

\* lines neither grammar matches
InvalidLines == { <<>>, <<Wd("hello")>>, <<Wd("BUY"), Wd("LIMIT"), Wd("EURUSD")>> }

\* lines whose keywords are not in upper case:
\* "buy limit EURUSD 1% 1.1000 1.0950 1.1100 day" and
\* "Sell stop EURUSD 2 100 200 2 250 50 Week"
LowerCaseLines ==
    { <<Wd("buy"), Wd("limit"), Wd("EURUSD"), Pct(1, 0),
        Num(11000, 4), Num(10950, 4), Num(11100, 4), Wd("day")>>,
      <<Wd("Sell"), Wd("stop"), Wd("EURUSD"), Num(2, 0),
        Num(100, 0), Num(200, 0), Num(2, 0), Num(250, 0), Num(50, 0), Wd("Week")>> }

\* fixed lots of 2, 0 and 200, and percentages: with a DAY expiration, with the
\* entry price on the stop-loss, with a WEEK expiration and a comment, and
\* "BUY LIMIT EURUSD 1% 1.1000 1.0950 1.1100"; a fixed lot of 2 for the other
\* sides and kinds; and a comment that is a numeral, "5", with and without an
\* expiration before it
SingleLines ==
    { SingleLine("BUY",  "LIMIT",  Num(2, 0),   Num(100, 0), Num(90, 0),  Num(120, 0), "", "")
          \o <<Num(5, 0)>>,
      SingleLine("BUY",  "LIMIT",  Num(2, 0),   Num(100, 0), Num(90, 0),  Num(120, 0), "DAY", "")
          \o <<Num(5, 0)>>,
      SingleLine("SELL", "LIMIT",  Num(2, 0),   Num(100, 0), Num(110, 0), Num(80, 0),  "", ""),
      SingleLine("BUY",  "STOP",   Num(2, 0),   Num(100, 0), Num(90, 0),  Num(120, 0), "", ""),
      SingleLine("BUY",  "MARKET", Num(2, 0),   Num(100, 0), Num(90, 0),  Num(120, 0), "", ""),
      SingleLine("SELL", "MARKET", Num(2, 0),   Num(100, 0), Num(110, 0), Num(80, 0),  "", ""),
      SingleLine("BUY",  "LIMIT",  Num(2, 0),   Num(100, 0), Num(90, 0),  Num(120, 0), "", ""),
      SingleLine("BUY",  "LIMIT",  Num(0, 0),   Num(100, 0), Num(90, 0),  Num(120, 0), "", ""),
      SingleLine("BUY",  "LIMIT",  Num(200, 0), Num(100, 0), Num(90, 0),  Num(120, 0), "", ""),
      SingleLine("SELL", "STOP",   Pct(1, 0),   Num(100, 0), Num(110, 0), Num(80, 0),  "DAY", ""),
      SingleLine("BUY",  "MARKET", Pct(1, 0),   Num(100, 0), Num(100, 0), Num(120, 0), "", ""),
      SingleLine("BUY",  "LIMIT",  Pct(7, 0),   Num(100, 0), Num(90, 0),  Num(120, 0), "WEEK", "swing"),
      SingleLine("BUY",  "LIMIT",  Pct(1, 0),   Num(11000, 4), Num(10950, 4), Num(11100, 4), "", "") }

\* fixed-lot ladders from 100 to 200 of every COUNT and one from 0.2 to 0.9,
\* percentage ladders from 100 to 200 whose middle rung meets the stop-loss
\* (150) or does not (90), a fixed lot of 0, and ladders that expire
RangeLines ==
    { RangeLine("BUY", "LIMIT", Num(2, 0), Num(100, 0), Num(200, 0), c, Num(90, 0), Num(300, 0), "", "")
        : c \in 0..MaxCount }
    \cup
    { RangeLine("SELL", "LIMIT", Pct(10, 0), Num(100, 0), Num(200, 0), c, sl, Num(50, 0), "", "")
        : c \in {0, 1, 2, MaxCount}, sl \in {Num(150, 0), Num(90, 0)} }
    \cup
    { RangeLine("BUY", "LIMIT", Num(2, 0), Num(2, 1), Num(9, 1), 2, Num(1, 1), Num(15, 1), "", ""),
      RangeLine("BUY", "STOP", Num(0, 0), Num(100, 0), Num(200, 0), 2, Num(90, 0), Num(300, 0), "", ""),
      RangeLine("BUY", "STOP", Num(2, 0), Num(100, 0), Num(200, 0), 2, Num(90, 0), Num(300, 0), "WEEK", "grid"),
      RangeLine("SELL", "STOP", Pct(4, 0), Num(200, 0), Num(100, 0), 2, Num(250, 0), Num(50, 0), "DAY", "") }

\* lines in the shape of a range whose kind is MARKET:
\* "BUY MARKET EURUSD 2 100 200 5 90 300" and the same with the expiration DAY
MarketRangeLines ==
    { RangeLine("BUY", "MARKET", Num(2, 0), Num(100, 0), Num(200, 0), 5, Num(90, 0), Num(300, 0), e, "")
        : e \in {"", "DAY"} }

\* the lines of the messages of several lines: one no grammar matches, a single
\* order, a range of one rung
ShortLines ==
    { <<Wd("hello")>>,
      SingleLine("BUY", "LIMIT", Num(2, 0), Num(100, 0), Num(90, 0), Num(120, 0), "", ""),
      RangeLine("BUY", "LIMIT", Num(2, 0), Num(100, 0), Num(200, 0), 1, Num(90, 0), Num(300, 0), "", "") }

RECURSIVE SeqsOf(_, _)
SeqsOf(S, k) == IF k = 0 THEN { <<>> }
                ELSE { <<x>> \o s : x \in S, s \in SeqsOf(S, k - 1) }

Contents ==
    { <<l>> : l \in InvalidLines \cup LowerCaseLines \cup SingleLines \cup RangeLines
                   \cup MarketRangeLines }
    \cup UNION { SeqsOf(ShortLines, k) : k \in 2..MaxLines }

\* message.author == client.user or not
Authors == { "client.user", "member" }

Dec(d, f) == float(Num(d, f))

\* what mt5.symbol_info answers when it does not fail: an index quoted in whole points with volumes
\* from 0.3 in steps of 0.1, a currency pair, a symbol whose tick value is
\* zero, a symbol whose point is zero
SymbolInfos ==
    { [point |-> Dec(1, 0), trade_tick_value |-> Dec(1, 0),
       volume_min |-> Dec(3, 1), volume_max |-> Dec(50, 0), volume_step |-> Dec(1, 1)],
      [point |-> Dec(1, 4), trade_tick_value |-> Dec(10, 0),
       volume_min |-> Dec(1, 2), volume_max |-> Dec(100, 0), volume_step |-> Dec(1, 2)],
      [point |-> Dec(1, 0), trade_tick_value |-> Dec(0, 0),
       volume_min |-> Dec(1, 0), volume_max |-> Dec(50, 0), volume_step |-> Dec(1, 0)],
      [point |-> Dec(0, 0), trade_tick_value |-> Dec(1, 0),
       volume_min |-> Dec(1, 0), volume_max |-> Dec(50, 0), volume_step |-> Dec(1, 0)] }

\* what mt5.account_info().balance answers when the call does not fail
Balances == { Dec(10000, 0), Dec(300, 0) }

\* None (<<>>) or a value
Opt(S) == { <<>> } \cup { <<x>> : x \in S }

\* what datetime.now() answers: any day of a week, at the start or the last
\* second of the day
Clock == { [day |-> d, tod |-> t] : d \in 0..6, t \in {0, EndOfDay} }

\* what mt5.order_send answers: None, a result with retcode TRADE_RETCODE_DONE,
\* a result with another retcode
SendResults == { "None", "TRADE_RETCODE_DONE", "TRADE_RETCODE_REJECT" }

\* ---------------------------------------------------------------------------
\* The steps of place_multiple_orders and place_trade that compute or decide.
\* ---------------------------------------------------------------------------
\* line 189
price_step(entry_price, end_price, num_orders) ==
    truediv(FSub(end_price, entry_price), FromInt(num_orders - 1))

\* the total risk handed to every order, undivided
risk_percentage_undivided(total_risk_percentage, num_orders) ==
    Returned(total_risk_percentage)

\* line 195
risk_percentage_per_order(total_risk_percentage, num_orders) ==
    truediv(total_risk_percentage, FromInt(num_orders))

\* line 205
new_entry_price(entry_price, step, i) == FAdd(entry_price, FMul(step, FromInt(i)))

\* line 216, on a volume that is a number
place_multiple_orders_volume_invalid(volume, symbol_info) ==
    FLt(volume, symbol_info.volume_min) \/ FGt(volume, symbol_info.volume_max)

\* a validation that refuses a missing volume only
volume_invalid_when_none(volume, symbol_info) == volume.t = "none"

\* line 321; volume is what calculate_lot_size returned, or the fixed lot
place_trade_volume_invalid(volume, symbol_info) ==
    \/ volume.t = "none"
    \/ FLt(volume.v, symbol_info.volume_min)
    \/ FGt(volume.v, symbol_info.volume_max)

\* a loop that goes on whatever order_send answers
send_failure_ignored(result) == <<>>

\* a check of the answer that looks for None only, not at the retcode
send_failure_only_none(result) ==
    IF result = "None" THEN <<"order_send None">> ELSE <<>>

\* lines 272-279: where the answer of order_send makes the function return
\* False (<<>>: nowhere)
place_multiple_orders_send_failure(result) ==
    IF result = "None" THEN <<"order_send None">>
    ELSE IF result # "TRADE_RETCODE_DONE" THEN <<"retcode">>
    ELSE <<>>

\* lines 386-393
place_trade_send_failure(result) ==
    IF result = "None" THEN <<"order_send None">>
    ELSE IF result # "TRADE_RETCODE_DONE" THEN <<"retcode">>
    ELSE <<>>

\* ---------------------------------------------------------------------------
\* State.
\*   message   the message on_message was called with
\*   terminal  the account balance and the symbol's properties held by the
\*             terminal, which its calls answer unless they fail
\*   pc        where the handler is: "start"; "line", at the top of the loop
\*             body for line n; "rung", inside place_multiple_orders at the top
\*             of its loop; "status", at line 449 with success set; "except",
\*             in the handler of lines 454-456; "done", returned; "raised",
\*             left by an exception
\*   n         the number of the line being processed (1 is the first)
\*   success   the handler's variable of that name
\*   call      the frame of place_multiple_orders while pc = "rung", else <<>>
\*   orders    every request handed to mt5.order_send, with its answer
\*   chat      every text handed to message.channel.send, delivered or not
\*   reads     what mt5.account_info and mt5.symbol_info answered to place_trade
\*             and place_multiple_orders
\*   sizings   every call of calculate_lot_size
\*   volumes   every volume resolved for an order, sized or fixed
\*   results   each line's outcome, and where it was decided
\* These, but for terminal, are the state of one call of on_message, the one
\* the event loop is running.
\*   waiting   the calls of on_message for other messages that the event
\*             loop is not running: not begun, or suspended in an await
\* ---------------------------------------------------------------------------
VARIABLES message, terminal, pc, n, success, call, orders, chat, reads, sizings, volumes, results,
          waiting

vars == <<message, terminal, pc, n, success, call, orders, chat, reads, sizings, volumes, results,
          waiting>>

Init ==
    /\ message \in [author : Authors, content : Contents]
    /\ terminal \in [balance : Balances, symbol_info : SymbolInfos]
    /\ pc = "start"
    /\ n = 0
    /\ success = FALSE
    /\ call = <<>>
    /\ orders = <<>>
    /\ chat = <<>>
    /\ reads = <<>>
    /\ sizings = <<>>
    /\ volumes = <<>>
    /\ results = <<>>
    /\ waiting = <<>>

line == message.content[n]

\* a dispatch that tries the single-order grammar before the range grammar
single_grammar_first(l) ==
    IF parse_trade_signal(l) # <<>> THEN "single"
    ELSE IF parse_multiple_orders_signal(l) # <<>> THEN "multiple"
    ELSE "none"

\* lines 412-446: the function a line is dispatched to, place_multiple_orders
\* when the range grammar matches, else place_trade when the single-order
\* grammar matches, else neither
PathOf(l) ==
    IF parse_multiple_orders_signal(l) # <<>> THEN "multiple"
    ELSE IF parse_trade_signal(l) # <<>> THEN "single"
    ELSE "none"

\* lines 412 and 430: trade_signal, the groups of the grammar that matched
SignalOf(l) ==
    IF parse_multiple_orders_signal(l) # <<>> THEN parse_multiple_orders_signal(l)
    ELSE parse_trade_signal(l)

\* lines 404-409: ignore the client's own messages, else split into lines
Receive ==
    /\ pc = "start"
    /\ IF message.author = "client.user"
       THEN pc' = "done" /\ n' = n
       ELSE pc' = "line" /\ n' = 1
    /\ UNCHANGED <<message, terminal, waiting, success, call, orders, chat, reads, sizings, volumes, results>>

\* place_trade or place_multiple_orders returns ok to on_message, from the place
\* named by at
Return(path, ok, at) ==
    /\ success' = ok
    /\ results' = Append(results, [line |-> n, path |-> path, success |-> ok, at |-> at])
    /\ pc' = "status"
    /\ call' = <<>>

\* the request is handed to mt5.order_send, which answers result
Send(rung, request, now, result) ==
    orders' = Append(orders, [line |-> n, rung |-> rung, request |-> request,
                              now |-> now, result |-> result])

\* the clock is read only to compute an expiration
ClockReads(expiration) == IF expiration = <<>> THEN { <<>> } ELSE { <<c>> : c \in Clock }

\* one resolution of a volume: the call of calculate_lot_size made for it, if
\* any, and the volume
Sized(rung, balance, risk_percentage, symbol_info, entry_price, sl) ==
    [sized  |-> << [line |-> n, rung |-> rung, balance |-> balance,
                    risk_percentage |-> risk_percentage, symbol_info |-> symbol_info,
                    entry_price |-> entry_price, sl |-> sl] >>,
     volume |-> calculate_lot_size(balance, risk_percentage, symbol_info, entry_price, sl)]

Fixed(lot) == [sized |-> <<>>, volume |-> Returned(lot)]

\* lines 163-176: the two reads; symbol_info is read only when account_info
\* answered
Read(account_info, symbol_info) ==
    reads' = Append(reads, [line |-> n, account_info |-> account_info,
                            symbol_info |-> symbol_info])

SymbolInfoReads(account_info) ==
    IF account_info = <<>> THEN { <<>> } ELSE Opt({terminal.symbol_info})

\* lines 178-203: the conversions, the price step and the risk of each order;
\* step and risk are what lines 189 and 195 evaluate to
EnterLoop(sig, balance, symbol_info, step, risk) ==
    IF step.t = "raise" THEN Return("multiple", FALSE, "ZeroDivisionError price_step")
    ELSE IF risk.t = "raise" THEN Return("multiple", FALSE, "ZeroDivisionError risk_percentage_per_order")
    ELSE IF int(sig.num_orders) = 0 THEN Return("multiple", TRUE, "end")
    ELSE /\ call' = << [sig |-> sig,
                        balance |-> balance,
                        symbol_info |-> symbol_info,
                        entry_price |-> float(sig.entry_price_range),
                        sl |-> float(sig.sl),
                        tp |-> float(sig.tp),
                        price_step |-> step.v,
                        risk_percentage_per_order |-> IF risk.t = "ok" THEN <<risk.v>> ELSE <<>>,
                        fixed_lot_size |-> IF risk.t = "ok" THEN <<>>
                                           ELSE <<float(sig.risk_or_lot)>>,
                        num_orders |-> int(sig.num_orders),
                        i |-> 0] >>
         /\ pc' = "rung"
         /\ UNCHANGED <<success, results>>

\* lines 412-427 and 157-203: the range grammar matches, and
\* place_multiple_orders runs up to its loop
BeginMultiple ==
    /\ pc = "line"
    /\ PathOf(line) = "multiple"
    /\ \E selected \in BOOLEAN :
         IF ~selected THEN Return("multiple", FALSE, "symbol_select") /\ UNCHANGED reads
         ELSE \E account_info \in Opt({terminal.balance}) :
              \E symbol_info \in SymbolInfoReads(account_info) :
                /\ Read(account_info, symbol_info)
                /\ IF account_info = <<>> THEN Return("multiple", FALSE, "account_info")
                   ELSE IF symbol_info = <<>> THEN Return("multiple", FALSE, "symbol_info")
                   ELSE EnterLoop(parse_multiple_orders_signal(line)[1],
                                  account_info[1], symbol_info[1],
                                  price_step(float(parse_multiple_orders_signal(line)[1].entry_price_range),
                                             float(parse_multiple_orders_signal(line)[1].end_price_range),
                                             int(parse_multiple_orders_signal(line)[1].num_orders)),
                                  IF parse_multiple_orders_signal(line)[1].risk_or_lot.k = "p"
                                  THEN risk_percentage_per_order(
                                           float(parse_multiple_orders_signal(line)[1].risk_or_lot),
                                           int(parse_multiple_orders_signal(line)[1].num_orders))
                                  ELSE ReturnedNone)
    /\ UNCHANGED <<message, terminal, waiting, n, orders, chat, sizings, volumes>>

\* what mt5.symbol_info answers inside calculate_lot_size, which calls it only
\* past line 43 (<<>> when it is not called)
SizerReads(f) ==
    IF f.risk_percentage_per_order = <<>> THEN { <<>> } ELSE Opt({f.symbol_info})

\* lines 208-213: the volume of rung f.i at price
RungVolumes(f, price) ==
    IF f.fixed_lot_size # <<>> /\ ~FIsZero(f.fixed_lot_size[1])
    THEN { Fixed(f.fixed_lot_size[1]) }
    ELSE { Sized(f.i, f.balance, f.risk_percentage_per_order, answer, price, f.sl)
             : answer \in SizerReads(f) }

\* lines 215-283: the rest of the iteration for the volume resolved
RungOrder(f, price, s) ==
    /\ sizings' = sizings \o s.sized
    /\ volumes' = Append(volumes, [line |-> n, rung |-> f.i, volume |-> s.volume])
    /\ IF s.volume.t = "raise"
       THEN Return("multiple", FALSE, "exception calculate_lot_size") /\ UNCHANGED orders
       ELSE IF s.volume.t = "none"
       THEN Return("multiple", FALSE, "TypeError volume") /\ UNCHANGED orders
       ELSE IF place_multiple_orders_volume_invalid(s.volume.v, f.symbol_info)
       THEN Return("multiple", FALSE, "volume") /\ UNCHANGED orders
       ELSE \E now \in ClockReads(f.sig.expiration), result \in SendResults :
              /\ Send(f.i,
                      place_multiple_orders_request(
                          f.sig.order_type, f.sig.order_kind, f.sig.symbol, s.volume.v,
                          price, f.sl, f.tp, f.sig.expiration, f.sig.comment, now),
                      now, result)
              /\ IF place_multiple_orders_send_failure(result) # <<>>
                 THEN Return("multiple", FALSE, place_multiple_orders_send_failure(result)[1])
                 ELSE IF f.i + 1 = f.num_orders
                 THEN Return("multiple", TRUE, "end")
                 ELSE /\ call' = << [f EXCEPT !.i = f.i + 1] >>
                      /\ UNCHANGED <<pc, success, results>>

RungAt(f, price) == \E s \in RungVolumes(f, price) : RungOrder(f, price, s)

\* lines 204-283: one iteration of the loop of place_multiple_orders
Rung ==
    /\ pc = "rung"
    /\ RungAt(call[1], new_entry_price(call[1].entry_price, call[1].price_step, call[1].i))
    /\ UNCHANGED <<message, terminal, waiting, n, chat, reads>>

\* lines 315-319
PlaceTradeVolumes(sig, balance, symbol_info) ==
    IF sig.risk_or_lot.k = "p"
    THEN { Sized(0, balance, <<float(sig.risk_or_lot)>>, answer,
                 float(sig.entry_price), float(sig.sl))
             : answer \in Opt({symbol_info}) }
    ELSE { Fixed(float(sig.risk_or_lot)) }

\* lines 321-396
PlaceTradeOrder(sig, symbol_info, s) ==
    /\ sizings' = sizings \o s.sized
    /\ volumes' = Append(volumes, [line |-> n, rung |-> 0, volume |-> s.volume])
    /\ IF s.volume.t = "raise"
       THEN Return("single", FALSE, "exception calculate_lot_size") /\ UNCHANGED orders
       ELSE IF place_trade_volume_invalid(s.volume, symbol_info)
       THEN Return("single", FALSE, "volume") /\ UNCHANGED orders
       ELSE \E now \in ClockReads(sig.expiration), result \in SendResults :
              /\ Send(0,
                      place_trade_request(
                          sig.order_type, sig.order_kind, sig.symbol, s.volume.v,
                          float(sig.entry_price), float(sig.sl), float(sig.tp),
                          sig.expiration, sig.comment, now),
                      now, result)
              /\ IF place_trade_send_failure(result) # <<>>
                 THEN Return("single", FALSE, place_trade_send_failure(result)[1])
                 ELSE Return("single", TRUE, "end")

\* lines 428-443 and 289-400: only the single-order grammar matches, and
\* place_trade runs
PlaceTrade ==
    /\ pc = "line"
    /\ PathOf(line) = "single"
    /\ \E selected \in BOOLEAN :
         IF ~selected
         THEN Return("single", FALSE, "symbol_select")
              /\ UNCHANGED <<orders, reads, sizings, volumes>>
         ELSE \E account_info \in Opt({terminal.balance}) :
              \E symbol_info \in SymbolInfoReads(account_info) :
                /\ Read(account_info, symbol_info)
                /\ IF account_info = <<>>
                   THEN Return("single", FALSE, "account_info")
                        /\ UNCHANGED <<orders, sizings, volumes>>
                   ELSE IF symbol_info = <<>>
                   THEN Return("single", FALSE, "symbol_info")
                        /\ UNCHANGED <<orders, sizings, volumes>>
                   ELSE \E s \in PlaceTradeVolumes(parse_trade_signal(line)[1],
                                                   account_info[1], symbol_info[1]) :
                          PlaceTradeOrder(parse_trade_signal(line)[1], symbol_info[1], s)
    /\ UNCHANGED <<message, terminal, waiting, n, chat>>

\* the text handed to channel.send: its kind, the formats it names, and
\* whether the channel took it (send raises when it does not)
Text(kind, delivered) ==
    [line |-> n, kind |-> kind,
     formats |-> IF kind = "invalid format" THEN {"single orders", "multiple orders"}
                 ELSE {},
     delivered |-> delivered]

\* the loop's step to the next line, or the handler's return
NextLine ==
    IF n < Len(message.content)
    THEN pc' = "line" /\ n' = n + 1
    ELSE pc' = "done" /\ n' = n

\* lines 444-447: neither grammar matches
InvalidFormat ==
    /\ pc = "line"
    /\ PathOf(line) = "none"
    /\ success' = FALSE
    /\ results' = Append(results, [line |-> n, path |-> "none", success |-> FALSE,
                                   at |-> "format"])
    /\ \E delivered \in BOOLEAN :
         /\ chat' = Append(chat, Text("invalid format", delivered))
         /\ pc' = IF delivered THEN "status" ELSE "except"
    /\ UNCHANGED <<message, terminal, waiting, n, call, orders, reads, sizings, volumes>>

\* lines 449-452 and the loop's step to the next line
Status ==
    /\ pc = "status"
    /\ \E delivered \in BOOLEAN :
         /\ chat' = Append(chat, Text(IF success THEN "success" ELSE "failure", delivered))
         /\ IF delivered THEN NextLine ELSE pc' = "except" /\ n' = n
    /\ UNCHANGED <<message, terminal, waiting, success, call, orders, reads, sizings, volumes, results>>

\* lines 454-456: the handler of an exception raised in the loop body; its own
\* send is not guarded
Except ==
    /\ pc = "except"
    /\ \E delivered \in BOOLEAN :
         /\ chat' = Append(chat, Text("error", delivered))
         /\ IF delivered THEN NextLine ELSE pc' = "raised" /\ n' = n
    /\ UNCHANGED <<message, terminal, waiting, success, call, orders, reads, sizings, volumes, results>>

Next ==
    \/ Receive
    \/ BeginMultiple
    \/ Rung
    \/ PlaceTrade
    \/ InvalidFormat
    \/ Status
    \/ Except

Spec == Init /\ [][Next]_vars

\* ---------------------------------------------------------------------------
\* Several messages.  on_message is a coroutine (line 403): the client starts
\* one call of it for each message received, and its event loop runs one call
\* at a time, from one await to the next.  The awaits of on_message are the
\* three channel sends (lines 447, 450-452, 456); place_trade and
\* place_multiple_orders are plain functions and hold the loop until they
\* return.
\* ---------------------------------------------------------------------------
\* the most calls of on_message in progress together
MaxHandlers == 2

\* the messages: a single order and a line no grammar matches, or a ladder of
\* two rungs
HandlerContents ==
    { << SingleLine("BUY", "LIMIT", Num(2, 0), Num(100, 0), Num(90, 0), Num(120, 0), "", ""),
         <<Wd("hello")>> >>,
      << RangeLine("BUY", "LIMIT", Num(2, 0), Num(100, 0), Num(200, 0), 2, Num(90, 0), Num(300, 0), "", "") >> }

\* a call of on_message for the message m, not begun
Begun(m) ==
    [message |-> m, pc |-> "start", n |-> 0, success |-> FALSE, call |-> <<>>,
     orders |-> <<>>, chat |-> <<>>, reads |-> <<>>, sizings |-> <<>>,
     volumes |-> <<>>, results |-> <<>>]

\* the call of on_message the event loop is running
Running ==
    [message |-> message, pc |-> pc, n |-> n, success |-> success, call |-> call,
     orders |-> orders, chat |-> chat, reads |-> reads, sizings |-> sizings,
     volumes |-> volumes, results |-> results]

InitHandlers ==
    /\ terminal \in { t \in [balance : Balances, symbol_info : SymbolInfos] :
                         t.balance = Dec(10000, 0) /\ t.symbol_info.volume_step = Dec(1, 1) }
    /\ message \in [author : {"member"}, content : HandlerContents]
    /\ pc = "start"
    /\ n = 0
    /\ success = FALSE
    /\ call = <<>>
    /\ orders = <<>>
    /\ chat = <<>>
    /\ reads = <<>>
    /\ sizings = <<>>
    /\ volumes = <<>>
    /\ results = <<>>
    /\ waiting \in { [i \in 1..(MaxHandlers - 1) |-> Begun(ms[i])] :
                        ms \in [1..(MaxHandlers - 1) -> [author : {"member"}, content : HandlerContents]] }

\* a scheduler that takes the call off the loop at any statement
at_any_statement(p, k, rs) == TRUE

\* whether the call at p, on line k, with the outcomes rs, is out of the loop's
\* hands: not begun, returned or left by an exception, or in an await, which
\* is the send of line 447 (the outcome of line k is that no grammar matches,
\* and line 449 comes next), the send of lines 450-452 (the next line comes
\* next), or a send that raises (the handler comes next)
at_await(p, k, rs) ==
    \/ p \in {"start", "done", "raised", "except"}
    \/ p = "line" /\ k > 1
    \/ p = "status" /\ \E j \in 1..Len(rs) : rs[j].line = k /\ rs[j].path = "none"

\* the call f leaves the loop to the i-th of the calls waiting; a call that is
\* over is forgotten
Resume(f, i) ==
    /\ message' = waiting[i].message
    /\ pc' = waiting[i].pc
    /\ n' = waiting[i].n
    /\ success' = waiting[i].success
    /\ call' = waiting[i].call
    /\ orders' = waiting[i].orders
    /\ chat' = waiting[i].chat
    /\ reads' = waiting[i].reads
    /\ sizings' = waiting[i].sizings
    /\ volumes' = waiting[i].volumes
    /\ results' = waiting[i].results
    /\ waiting' = IF f.pc \in {"done", "raised"}
                  THEN SubSeq(waiting, 1, i - 1) \o SubSeq(waiting, i + 1, Len(waiting))
                  ELSE [waiting EXCEPT ![i] = f]

\* the event loop goes from the call it runs to another one
Switch ==
    /\ at_await(pc, n, results)
    /\ \E i \in 1..Len(waiting) : Resume(Running, i)
    /\ UNCHANGED terminal

NextHandlers ==
    \/ Receive
    \/ BeginMultiple
    \/ Rung
    \/ PlaceTrade
    \/ InvalidFormat
    \/ Status
    \/ Except
    \/ Switch

SpecHandlers == InitHandlers /\ [][NextHandlers]_vars

\* ---------------------------------------------------------------------------
\* What the properties speak of.
\* ---------------------------------------------------------------------------
Lines == 1..Len(message.content)

\* the range signal of line l, or <<>>
RangeSignal(l) == parse_multiple_orders_signal(message.content[l])

\* the signal of line l, whichever grammar gives it, or <<>>
Signal(l) == IF RangeSignal(l) # <<>> THEN RangeSignal(l)
             ELSE parse_trade_signal(message.content[l])

IsPercent(sig) == sig.risk_or_lot.k = "p"

\* the requests sent for line l, in the order sent
OrdersOf(l) == SelectSeq(orders, LAMBDA o : o.line = l)

\* the outcomes line l has received
Outcomes(l) == { results[k] : k \in { j \in 1..Len(results) : results[j].line = l } }

Failure(l) == Outcomes(l) # {} /\ \A r \in Outcomes(l) : ~r.success
Success(l) == Outcomes(l) # {} /\ \A r \in Outcomes(l) : r.success

\* the symbol properties place_trade or place_multiple_orders read for line l
InfosRead(l) ==
    { reads[k].symbol_info[1] :
        k \in { j \in 1..Len(reads) : reads[j].line = l /\ reads[j].symbol_info # <<>> } }

\* the volumes resolved for rung i of line l
VolumesOf(l, i) ==
    { volumes[k].volume :
        k \in { j \in 1..Len(volumes) : volumes[j].line = l /\ volumes[j].rung = i } }

WithinLimits(v, symbol_info) ==
    ~FLt(v, symbol_info.volume_min) /\ ~FGt(v, symbol_info.volume_max)

\* ---------------------------------------------------------------------------
\* C1.  A range signal's rungs are sent one at a time in ladder order.  When a
\* rung is refused (its volume is rejected, order_send answers None, or the
\* retcode is not DONE) the signal's outcome is Failure and that rung is the
\* last one attempted; once the outcome is there no further request is sent for
\* the line, and no request already sent is ever withdrawn: the log of
\* requests only grows, and none of them is a removal.
\* ---------------------------------------------------------------------------
C1_LadderStopsAtFailure ==
    \A l \in Lines : RangeSignal(l) # <<>> =>
        /\ \A k \in 1..Len(OrdersOf(l)) :
             /\ OrdersOf(l)[k].rung = k - 1
             /\ OrdersOf(l)[k].request.action # "TRADE_ACTION_REMOVE"
             /\ OrdersOf(l)[k].result # "TRADE_RETCODE_DONE" =>
                    k = Len(OrdersOf(l)) /\ Failure(l)
        /\ \A k \in 1..Len(volumes) :
             ( /\ volumes[k].line = l
               /\ \/ volumes[k].volume.t # "ok"
                  \/ \E info \in InfosRead(l) : ~WithinLimits(volumes[k].volume.v, info) )
             => /\ Failure(l)
                /\ Len(OrdersOf(l)) = volumes[k].rung

C1_NothingAfterOutcome ==
    /\ Len(orders') >= Len(orders)
    /\ SubSeq(orders', 1, Len(orders)) = orders
    /\ \A l \in Lines :
         Outcomes(l) # {} =>
             SelectSeq(orders', LAMBDA o : o.line = l) = OrdersOf(l)

C1_FailAtFirstFailedRung ==
    [](C1_LadderStopsAtFailure) /\ [][C1_NothingAfterOutcome]_vars

\* two rungs accepted, the third refused by the terminal
C1_Witness ==
    \E l \in Lines :
        /\ RangeSignal(l) # <<>>
        /\ Len(OrdersOf(l)) = 3
        /\ OrdersOf(l)[2].result = "TRADE_RETCODE_DONE"
        /\ OrdersOf(l)[3].result = "TRADE_RETCODE_REJECT"
        /\ Failure(l)

\* ---------------------------------------------------------------------------
\* C2.  A range signal with COUNT = N >= 2 whose every rung is accepted has
\* sent exactly N requests, rung i the (i+1)-th, the first priced exactly at
\* the start of the range and the last exactly at its end.
\* ---------------------------------------------------------------------------
C2_LadderPrices ==
    \A l \in Lines :
        ( /\ RangeSignal(l) # <<>>
          /\ int(RangeSignal(l)[1].num_orders) >= 2
          /\ Success(l) )
        => /\ Len(OrdersOf(l)) = int(RangeSignal(l)[1].num_orders)
           /\ \A k \in 1..Len(OrdersOf(l)) : OrdersOf(l)[k].rung = k - 1
           /\ OrdersOf(l)[1].request.price = float(RangeSignal(l)[1].entry_price_range)
           /\ OrdersOf(l)[Len(OrdersOf(l))].request.price
                  = float(RangeSignal(l)[1].end_price_range)

\* ---------------------------------------------------------------------------
\* C3.  On a range signal sized by a percentage r% with COUNT = N, every
\* volume is resolved by one call of calculate_lot_size, and every such call
\* is given the risk percentage r / N, the price of its own rung
\* (start + step * i) - the price of the request if one is sent - and the
\* balance that the one account_info call of the signal answered.
\* ---------------------------------------------------------------------------
SizingsOf(l, i) ==
    { k \in 1..Len(sizings) : sizings[k].line = l /\ sizings[k].rung = i }

\* the calls made for line l are given risk, the rung's price on the ladder
\* from start by step, and the balance read
C3_SizedAs(l, risk, start, step) ==
    \A k \in 1..Len(sizings) :
        sizings[k].line = l =>
            /\ sizings[k].risk_percentage = <<risk>>
            /\ sizings[k].entry_price = FAdd(start, FMul(step, FromInt(sizings[k].rung)))
            /\ \A j \in 1..Len(orders) :
                 (orders[j].line = l /\ orders[j].rung = sizings[k].rung)
                 => orders[j].request.price = sizings[k].entry_price
            /\ Cardinality({ j \in 1..Len(reads) : reads[j].line = l }) = 1
            /\ \A j \in 1..Len(reads) :
                 reads[j].line = l => reads[j].account_info = <<sizings[k].balance>>

C3_RiskPerRung ==
    \A l \in Lines :
        (RangeSignal(l) # <<>> /\ IsPercent(RangeSignal(l)[1])) =>
            /\ \A k \in 1..Len(volumes) :
                 volumes[k].line = l => Cardinality(SizingsOf(l, volumes[k].rung)) = 1
            /\ (\E k \in 1..Len(sizings) : sizings[k].line = l) =>
                 C3_SizedAs(l,
                            FDiv(float(RangeSignal(l)[1].risk_or_lot),
                                 FromInt(int(RangeSignal(l)[1].num_orders))),
                            float(RangeSignal(l)[1].entry_price_range),
                            FDiv(FSub(float(RangeSignal(l)[1].end_price_range),
                                      float(RangeSignal(l)[1].entry_price_range)),
                                 FromInt(int(RangeSignal(l)[1].num_orders) - 1)))

\* the last rung of a percentage ladder of MaxCount rungs has been sized
C3_Witness ==
    \E k \in 1..Len(sizings) :
        /\ RangeSignal(sizings[k].line) # <<>>
        /\ IsPercent(RangeSignal(sizings[k].line)[1])
        /\ sizings[k].rung = MaxCount - 1
        /\ Len(OrdersOf(sizings[k].line)) = MaxCount

\* ---------------------------------------------------------------------------
\* C4.  Every request handed to order_send carries the volume resolved for it,
\* a number within [volume_min, volume_max] of the symbol properties read for
\* its line; and when the volume resolved for an order is missing or outside
\* that interval, the line's outcome is Failure and no request is sent for
\* that order.
\* ---------------------------------------------------------------------------
C4_VolumeWithinLimits ==
    /\ \A k \in 1..Len(orders) :
         /\ InfosRead(orders[k].line) # {}
         /\ \A info \in InfosRead(orders[k].line) :
              WithinLimits(orders[k].request.volume, info)
         /\ VolumesOf(orders[k].line, orders[k].rung)
                = { Returned(orders[k].request.volume) }
    /\ \A k \in 1..Len(volumes) :
         ( \/ volumes[k].volume.t # "ok"
           \/ \E info \in InfosRead(volumes[k].line) :
                ~WithinLimits(volumes[k].volume.v, info) )
         => /\ Failure(volumes[k].line)
            /\ \A j \in 1..Len(orders) :
                 ~(orders[j].line = volumes[k].line /\ orders[j].rung = volumes[k].rung)

\* a fixed lot above volume_max has been refused
C4_Witness ==
    \E k \in 1..Len(volumes) :
        /\ volumes[k].volume.t = "ok"
        /\ \E info \in InfosRead(volumes[k].line) : FGt(volumes[k].volume.v, info.volume_max)
        /\ Failure(volumes[k].line)
        /\ OrdersOf(volumes[k].line) = <<>>

\* ---------------------------------------------------------------------------
\* C5.  A call of calculate_lot_size with entry # sl, tick size, tick value
\* and volume step above zero and volume_min <= volume_max returns a volume
\* within [volume_min, volume_max]; and when the raw volume
\* (B * r / 100) / (|E - S| / tick_size * tick_value) is itself within that
\* interval, the volume returned is the largest multiple of volume_step that
\* is not above the raw volume.
\* ---------------------------------------------------------------------------
IsPositive(x) == x.sg = 0 /\ ~FIsZero(x)

\* v is k * step for a whole k, not above raw, and (k + 1) * step is above raw
LargestMultipleBelow(v, raw, step, k) ==
    /\ k = FTrunc(k)
    /\ v = FMul(k, step)
    /\ ~FGt(v, raw)
    /\ FGt(FMul(FAdd(k, FromInt(1)), step), raw)

C5_Returned(v, info, raw) ==
    /\ v.t = "ok"
    /\ WithinLimits(v.v, info)
    /\ WithinLimits(raw, info) =>
           LargestMultipleBelow(v.v, raw, info.volume_step,
                                FTrunc(FAdd(FDiv(v.v, info.volume_step),
                                            FDiv(FromInt(1), FromInt(2)))))

C5_SizerWithinLimits ==
    \A k \in 1..Len(sizings) :
        ( /\ sizings[k].risk_percentage # <<>>
          /\ sizings[k].symbol_info # <<>>
          /\ sizings[k].entry_price # sizings[k].sl
          /\ IsPositive(sizings[k].symbol_info[1].point)
          /\ IsPositive(sizings[k].symbol_info[1].trade_tick_value)
          /\ IsPositive(sizings[k].symbol_info[1].volume_step)
          /\ ~FGt(sizings[k].symbol_info[1].volume_min, sizings[k].symbol_info[1].volume_max) )
        => \A v \in VolumesOf(sizings[k].line, sizings[k].rung) :
               C5_Returned(v, sizings[k].symbol_info[1],
                           FDiv(FDiv(FMul(sizings[k].balance, sizings[k].risk_percentage[1]),
                                     FromInt(100)),
                                FMul(FDiv(FAbs(FSub(sizings[k].entry_price, sizings[k].sl)),
                                          sizings[k].symbol_info[1].point),
                                     sizings[k].symbol_info[1].trade_tick_value)))

\* ---------------------------------------------------------------------------
\* C6.  When on_message has finished with a message of another author,
\* whether it returned or was left by an exception, every line of the message
\* has received an outcome.
\* ---------------------------------------------------------------------------
C6_EveryLineProcessed ==
    (pc \in {"done", "raised"} /\ message.author # "client.user")
    => \A l \in Lines : Outcomes(l) # {}

\* ---------------------------------------------------------------------------
\* C7.  For every line on_message has gone past, of a message of another
\* author, exactly one text was handed to the channel, and it is a success, a
\* failure, or an invalid-format text naming both formats; this even in the
\* runs where the channel takes every text.
\* ---------------------------------------------------------------------------
TextsOf(l) == { k \in 1..Len(chat) : chat[k].line = l }

C7_OneStatusPerLine ==
    (message.author # "client.user" /\ \A k \in 1..Len(chat) : chat[k].delivered)
    => \A l \in Lines :
           (l < n \/ (l = n /\ pc = "done")) =>
               /\ Cardinality(TextsOf(l)) = 1
               /\ \A k \in TextsOf(l) :
                    \/ chat[k].kind \in {"success", "failure"}
                    \/ /\ chat[k].kind = "invalid format"
                       /\ chat[k].formats = {"single orders", "multiple orders"}

\* ---------------------------------------------------------------------------
\* C8.  A range signal with COUNT = 1 gets the outcome Failure with no request
\* sent, and the outcome is not decided by a division by zero in the price
\* step.
\* ---------------------------------------------------------------------------
C8_CountOneFailsFast ==
    \A k \in 1..Len(results) :
        ( /\ RangeSignal(results[k].line) # <<>>
          /\ int(RangeSignal(results[k].line)[1].num_orders) = 1 )
        => /\ ~results[k].success
           /\ OrdersOf(results[k].line) = <<>>
           /\ results[k].at # "ZeroDivisionError price_step"

\* ---------------------------------------------------------------------------
\* C9.  When calculate_lot_size is called with a percentage and the entry
\* price equal to the stop-loss, or for a symbol whose tick value is zero, no
\* volume is resolved for that order, the line's outcome is Failure, and no
\* request is sent for that order nor, on a range, for a later rung.
\* ---------------------------------------------------------------------------
ZeroLoss(z) ==
    /\ z.risk_percentage # <<>>
    /\ \/ z.entry_price = z.sl
       \/ z.symbol_info # <<>> /\ FIsZero(z.symbol_info[1].trade_tick_value)

C9_ZeroLossNoOrder ==
    \A k \in 1..Len(sizings) :
        ZeroLoss(sizings[k]) =>
            /\ VolumesOf(sizings[k].line, sizings[k].rung) # {}
            /\ \A v \in VolumesOf(sizings[k].line, sizings[k].rung) : v.t # "ok"
            /\ Failure(sizings[k].line)
            /\ \A j \in 1..Len(orders) :
                 orders[j].line = sizings[k].line => orders[j].rung < sizings[k].rung

\* the third rung of a percentage ladder lies on the stop-loss, after two
\* rungs were accepted
C9_Witness ==
    \E k \in 1..Len(sizings) :
        /\ ZeroLoss(sizings[k])
        /\ sizings[k].symbol_info # <<>>
        /\ ~FIsZero(sizings[k].symbol_info[1].trade_tick_value)
        /\ sizings[k].rung = 2
        /\ Len(OrdersOf(sizings[k].line)) = 2
        /\ Failure(sizings[k].line)

\* ---------------------------------------------------------------------------
\* C10.  A request built with the expiration WEEK carries a timestamp later
\* than the clock read for it, at 23:59:59 of a Friday; read on a Friday at
\* the end of the day, it is the Friday of the following week.
\* ---------------------------------------------------------------------------
C10_WeekExpiry ==
    \A k \in 1..Len(orders) :
        Signal(orders[k].line)[1].expiration = <<"WEEK">> =>
            /\ orders[k].request.expiration # <<>>
            /\ orders[k].request.expiration[1] > timestamp(orders[k].now[1])
            /\ orders[k].request.expiration[1] % SecondsPerDay = EndOfDay
            /\ (orders[k].request.expiration[1] \div SecondsPerDay) % 7 = Friday
            /\ (weekday(orders[k].now[1]) = Friday /\ orders[k].now[1].tod >= EndOfDay)
               => orders[k].request.expiration[1]
                      = timestamp(orders[k].now[1]) + 7 * SecondsPerDay

\* ---------------------------------------------------------------------------
\* C11.  The side, kind and expiration keywords are put in upper case before
\* the grammars are matched: every line that has received an outcome was
\* dispatched as the same line with those keywords in upper case is, and has
\* the same signal fields.
\* ---------------------------------------------------------------------------
\* the places of the side, of the kind, and of the expiration of a single
\* order and of a range
KeywordPlaces == {1, 2, 8, 10}

Keywords == {"BUY", "SELL", "LIMIT", "STOP", "MARKET", "DAY", "WEEK"}

Uppercased(l) ==
    [i \in 1..Len(l) |->
        IF i \in KeywordPlaces /\ l[i].k = "w" /\ upper(l[i].s) \in Keywords
        THEN Wd(upper(l[i].s)) ELSE l[i]]

C11_KeywordsNormalized ==
    \A k \in 1..Len(results) :
        /\ results[k].path = PathOf(Uppercased(message.content[results[k].line]))
        /\ SignalOf(message.content[results[k].line])
               = SignalOf(Uppercased(message.content[results[k].line]))

\* ---------------------------------------------------------------------------
\* C12.  No order is handed to mt5.order_send twice: a line of a single order
\* has at most one request sent, a range line with COUNT = N at most N, one
\* for each rung at most; and a request the terminal refused (None, or a
\* retcode other than DONE) is the last one sent for its line.
\* ---------------------------------------------------------------------------
C12_NoRetry ==
    /\ \A l \in Lines :
         Len(OrdersOf(l)) <= IF RangeSignal(l) # <<>>
                             THEN int(RangeSignal(l)[1].num_orders) ELSE 1
    /\ \A k \in 1..Len(orders) :
         \A j \in (k + 1)..Len(orders) :
             orders[j].line = orders[k].line =>
                 /\ orders[j].rung # orders[k].rung
                 /\ orders[k].result = "TRADE_RETCODE_DONE"

\* the first rung of a ladder of MaxCount rungs was refused with a retcode,
\* and the line's outcome is there with that one request sent
C12_Witness ==
    \E l \in Lines :
        /\ RangeSignal(l) # <<>>
        /\ int(RangeSignal(l)[1].num_orders) = MaxCount
        /\ Len(OrdersOf(l)) = 1
        /\ OrdersOf(l)[1].result = "TRADE_RETCODE_REJECT"
        /\ Failure(l)
        /\ pc = "done"

\* ---------------------------------------------------------------------------
\* C13.  A line the range grammar matches is dispatched to
\* place_multiple_orders, never to place_trade, whatever the single-order
\* grammar makes of it; and a line of a single order, SIDE KIND SYMBOL SIZING
\* ENTRY SL TP with at most an expiration and a comment after them, is not
\* matched by the range grammar and is dispatched to place_trade.
\* ---------------------------------------------------------------------------
\* SIDE, a kind, SYMBOL, SIZING, and then the count of numerals given
IsSignalHead(l, numerals) ==
    /\ Len(l) >= 4 + numerals
    /\ IsOrderType(l[1]) /\ IsSymbol(l[3]) /\ IsRiskOrLot(l[4])
    /\ \A i \in 5..(4 + numerals) : IsNumber(l[i])

\* a line of a single order: no second price, no count
IsSingleOrderLine(l) ==
    /\ IsSignalHead(l, 3)
    /\ IsKindSingle(l[2])
    /\ Len(l) <= 9
    /\ Len(l) = 9 => IsExpiration(l[8])

\* a line of a range: two prices and a count before the stop-loss
IsRangeLine(l) ==
    /\ IsSignalHead(l, 5)
    /\ IsKindMulti(l[2])
    /\ IsDigits(l[7])

C13_RangeGrammarFirst ==
    \A k \in 1..Len(results) :
        /\ IsRangeLine(message.content[results[k].line])
               => results[k].path = "multiple"
        /\ IsSingleOrderLine(message.content[results[k].line])
               => /\ parse_multiple_orders_signal(message.content[results[k].line]) = <<>>
                  /\ results[k].path = "single"

\* a message whose first line is a range, which the single-order grammar
\* matches too, and whose second is a single order, both dispatched
C13_Witness ==
    /\ Len(message.content) = 2
    /\ IsRangeLine(message.content[1])
    /\ parse_trade_signal(message.content[1]) # <<>>
    /\ IsSingleOrderLine(message.content[2])
    /\ \E k \in 1..Len(results) : results[k].line = 1 /\ results[k].path = "multiple"
    /\ \E k \in 1..Len(results) : results[k].line = 2 /\ results[k].path = "single"

\* ---------------------------------------------------------------------------
\* C14.  place_trade hands at most one request to mt5.order_send, and it
\* returns Success exactly when it sent one request and the terminal answered
\* it with the retcode DONE; when the symbol is not selected, the account or
\* the symbol information is missing, or the volume is not resolved or is
\* refused, it returns Failure with no request sent.
\* ---------------------------------------------------------------------------
C14_Mirrors(r, sent) ==
    /\ Len(sent) <= 1
    /\ r.success <=> (Len(sent) = 1 /\ sent[1].result = "TRADE_RETCODE_DONE")
    /\ r.at \in {"symbol_select", "account_info", "symbol_info",
                 "exception calculate_lot_size", "volume"}
           => ~r.success /\ sent = <<>>

C14_SingleOutcomeMirrorsSend ==
    \A k \in 1..Len(results) :
        results[k].path = "single" => C14_Mirrors(results[k], OrdersOf(results[k].line))

\* a single order sized from a percentage was sent once and accepted, and
\* place_trade returned Success
C14_Witness ==
    \E k \in 1..Len(results) :
        /\ results[k].path = "single"
        /\ results[k].success
        /\ IsPercent(Signal(results[k].line)[1])
        /\ Len(OrdersOf(results[k].line)) = 1
        /\ OrdersOf(results[k].line)[1].result = "TRADE_RETCODE_DONE"

\* ---------------------------------------------------------------------------
\* C15.  Every request sent has the action and the type of its signal's kind
\* and side: MARKET the deal action with the type buy or sell, LIMIT the
\* pending action with the type buy-limit or sell-limit, STOP the pending
\* action with the type buy-stop or sell-stop; and place_trade and
\* place_multiple_orders map every side and kind alike.
\* ---------------------------------------------------------------------------
Sides == {"BUY", "SELL"}
Kinds == {"LIMIT", "STOP", "MARKET"}

DocumentedAction(kind) ==
    IF kind = "MARKET" THEN "TRADE_ACTION_DEAL" ELSE "TRADE_ACTION_PENDING"

DocumentedType(side, kind) ==
    CASE side = "BUY"  /\ kind = "MARKET" -> "ORDER_TYPE_BUY"
      [] side = "SELL" /\ kind = "MARKET" -> "ORDER_TYPE_SELL"
      [] side = "BUY"  /\ kind = "LIMIT"  -> "ORDER_TYPE_BUY_LIMIT"
      [] side = "SELL" /\ kind = "LIMIT"  -> "ORDER_TYPE_SELL_LIMIT"
      [] side = "BUY"  /\ kind = "STOP"   -> "ORDER_TYPE_BUY_STOP"
      [] side = "SELL" /\ kind = "STOP"   -> "ORDER_TYPE_SELL_STOP"

C15_Documented(request, sig) ==
    /\ sig.order_type \in Sides /\ sig.order_kind \in Kinds
    /\ request.action = DocumentedAction(sig.order_kind)
    /\ request.type = DocumentedType(sig.order_type, sig.order_kind)

\* what place_trade and what place_multiple_orders make of a side and a kind
C15_MappingOfPlaceTrade(side, kind) ==
    place_trade_request(side, kind, "", FZero, FZero, FZero, FZero, <<>>, <<>>, <<>>)

C15_MappingOfPlaceMultipleOrders(side, kind) ==
    place_multiple_orders_request(side, kind, "", FZero, FZero, FZero, FZero, <<>>, <<>>, <<>>)

\* both functions give the side and the kind the type and the action of request
C15_SameMapping(request, side, kind) ==
    /\ C15_MappingOfPlaceTrade(side, kind).type = request.type
    /\ C15_MappingOfPlaceTrade(side, kind).action = request.action
    /\ C15_MappingOfPlaceMultipleOrders(side, kind).type = request.type
    /\ C15_MappingOfPlaceMultipleOrders(side, kind).action = request.action

C15_TypeAndAction ==
    \A k \in 1..Len(orders) :
        /\ C15_Documented(orders[k].request, Signal(orders[k].line)[1])
        /\ C15_SameMapping(orders[k].request, Signal(orders[k].line)[1].order_type,
                           Signal(orders[k].line)[1].order_kind)

\* a SELL MARKET order was sent by place_trade as a deal of type sell
C15_Witness ==
    \E k \in 1..Len(orders) :
        /\ Signal(orders[k].line)[1].order_type = "SELL"
        /\ Signal(orders[k].line)[1].order_kind = "MARKET"
        /\ orders[k].request.action = "TRADE_ACTION_DEAL"
        /\ orders[k].request.type = "ORDER_TYPE_SELL"

\* ---------------------------------------------------------------------------
\* C16.  A request sent for a signal without expiration has the time-in-force
\* GTC and no expiration timestamp; one sent for a signal with the expiration
\* DAY or WEEK has the time-in-force SPECIFIED and an expiration timestamp,
\* which for DAY is 23:59:59 of the day the clock was read on, also when the
\* clock was read at that very second.
\* ---------------------------------------------------------------------------
C16_Resolved(request, now, expiration) ==
    IF expiration = <<>>
    THEN /\ request.type_time = "ORDER_TIME_GTC"
         /\ request.expiration = <<>>
    ELSE /\ request.type_time = "ORDER_TIME_SPECIFIED"
         /\ request.expiration # <<>>
         /\ now # <<>>
         /\ expiration = <<"DAY">> =>
                /\ request.expiration[1] \div SecondsPerDay = now[1].day
                /\ request.expiration[1] % SecondsPerDay = EndOfDay

C16_TimeInForce ==
    \A k \in 1..Len(orders) :
        C16_Resolved(orders[k].request, orders[k].now, Signal(orders[k].line)[1].expiration)

\* the second rung of a ladder that expires with the day, built at 23:59:59
C16_Witness ==
    \E k \in 1..Len(orders) :
        /\ RangeSignal(orders[k].line) # <<>>
        /\ RangeSignal(orders[k].line)[1].expiration = <<"DAY">>
        /\ orders[k].rung = 1
        /\ orders[k].now[1].tod = EndOfDay
        /\ orders[k].request.expiration = <<timestamp(orders[k].now[1])>>

\* ---------------------------------------------------------------------------
\* C17.  Every request sent has a comment: the comment of its signal when the
\* signal has one, the empty string when it has none.  (In a request, a key
\* the code did not set is <<>>.)
\* ---------------------------------------------------------------------------
EmptyComment == <<Wd("")>>

C17_CommentAlwaysPresent ==
    \A k \in 1..Len(orders) :
        /\ orders[k].request.comment # <<>>
        /\ orders[k].request.comment =
               IF Signal(orders[k].line)[1].comment # <<>>
               THEN Signal(orders[k].line)[1].comment
               ELSE EmptyComment

\* ---------------------------------------------------------------------------
\* C18.  With several calls of on_message in progress, which leave the event
\* loop to one another only in the awaits of the channel sends: in every call,
\* each line before the current one has its outcome, and the terminal was
\* called for the lines in their order, no call for a line coming after one
\* for a later line; and no call that waits is inside place_multiple_orders
\* or place_trade, so that at most one line at a time, the one of the
\* call that runs, is between its terminal calls.
\* ---------------------------------------------------------------------------
\* the calls of on_message in progress
Handlers == { Running } \cup { waiting[i] : i \in 1..Len(waiting) }

\* f is inside place_multiple_orders, between two of its terminal calls
InsideTerminalCalls(f) == f.pc = "rung" \/ f.call # <<>>

\* the entries of a log are in the order of the lines
InLineOrder(log) ==
    \A a \in 1..Len(log) : \A b \in a..Len(log) : log[a].line <= log[b].line

C18_LinesInTurn(f) ==
    /\ \A l \in 1..(f.n - 1) : \E j \in 1..Len(f.results) : f.results[j].line = l
    /\ \A j \in 1..Len(f.orders) : f.orders[j].line <= f.n
    /\ InLineOrder(f.reads) /\ InLineOrder(f.orders) /\ InLineOrder(f.results)

C18_OneLineAtATime ==
    /\ \A f \in Handlers : C18_LinesInTurn(f)
    /\ \A i \in 1..Len(waiting) : ~InsideTerminalCalls(waiting[i])

\* a call waits in the send that follows its first line, for which it sent an
\* order, while the call that runs has sent the first rung of its ladder
C18_Witness ==
    /\ pc = "rung"
    /\ call[1].i = 1
    /\ Len(orders) = 1
    /\ \E i \in 1..Len(waiting) :
         /\ waiting[i].pc = "line"
         /\ waiting[i].n = 2
         /\ Len(waiting[i].orders) = 1

\* ---------------------------------------------------------------------------
\* C19.  For a line in the shape of a range, SIDE KIND SYMBOL SIZING
\* ENTRY_START ENTRY_END COUNT SL TP and what may follow, whose kind is
\* MARKET, no request is sent, by place_multiple_orders or by place_trade,
\* and the outcome is a failure.
\* ---------------------------------------------------------------------------
IsMarketRangeLine(l) ==
    /\ IsSignalHead(l, 5)
    /\ l[2] = Wd("MARKET")
    /\ IsDigits(l[7])

C19_NoMarketRange ==
    /\ \A k \in 1..Len(orders) : ~IsMarketRangeLine(message.content[orders[k].line])
    /\ \A k \in 1..Len(results) :
         IsMarketRangeLine(message.content[results[k].line]) => ~results[k].success

\* ---------------------------------------------------------------------------
\* C20.  When place_multiple_orders has returned Success for a range line,
\* whose COUNT may be 0, COUNT is at least 2, exactly COUNT requests were
\* sent for the line, and the terminal accepted each of them; it never
\* returns Success with no request sent.
\* ---------------------------------------------------------------------------
C20_Complete(count, sent) ==
    /\ count >= 2
    /\ Len(sent) = count
    /\ \A i \in 1..Len(sent) : sent[i].result = "TRADE_RETCODE_DONE"

C20_SuccessSendsEveryRung ==
    \A k \in 1..Len(results) :
        (results[k].path = "multiple" /\ results[k].success)
        => C20_Complete(int(RangeSignal(results[k].line)[1].num_orders),
                        OrdersOf(results[k].line))

====
